---- MODULE Spec2Model ----
(***************************************************************************)
(* Model of scripts/health_check.py: the HealthChecker probes a list of    *)
(* services concurrently (check_service_async under asyncio.gather),       *)
(* reduces the results to a HealthReport (generate_report) and main turns  *)
(* the report's overall status into the process exit code.                 *)
(*                                                                         *)
(* Python strings that the code inspects character by character (urls,     *)
(* response bodies) are sequences of one-character strings; Python's None  *)
(* is the value None below.                                                *)
(***************************************************************************)
EXTENDS Integers, Sequences, FiniteSets, TLC

VARIABLES max_retries, services, mainPc, tasks, doneOrder, checks, report,
          reportsBuilt, exitCode

vars == <<max_retries, services, mainPc, tasks, doneOrder, checks, report,
          reportsBuilt, exitCode>>

\* ---------------------------------------------------------------- bounds
\* longest list of services handed to run_health_checks_async
MaxTargets == 2

\* ------------------------------------------------------------- constants
None == "<None>"
\* parser.add_argument("-r", "--retries", type=int, default=3), handed to
\* HealthChecker(max_retries=args.retries)
DefaultRetries == 3
NoExit == -1

\* Retry(status_forcelist=[429, 500, 502, 503, 504]) of the requests session
status_forcelist == {429, 500, 502, 503, 504}

\* status codes a target may answer with
StatusCodes == {200, 404, 500}

\* messages of the exceptions a request may end in (str(e) may be empty)
ErrorMessages == {"Cannot connect to host", ""}

\* --------------------------------------------------------- string helpers
\* str.lower() on the characters that occur in the bodies
Lower(c) ==
    CASE c = "A" -> "a" [] c = "E" -> "e" [] c = "H" -> "h" [] c = "I" -> "i"
      [] c = "K" -> "k" [] c = "L" -> "l" [] c = "O" -> "o" [] c = "S" -> "s"
      [] c = "T" -> "t" [] c = "Y" -> "y"
      [] OTHER -> c

LowerStr(s) == [k \in 1..Len(s) |-> Lower(s[k])]

\* Python's `sub in s`
Contains(s, sub) ==
    \E k \in 0..(Len(s) - Len(sub)) :
        \A j \in 1..Len(sub) : s[k + j] = sub[j]

Str_health == <<"h", "e", "a", "l", "t", "h">>
Str_healthy == <<"h", "e", "a", "l", "t", "h", "y">>
Str_ok == <<"o", "k">>

\* f"HTTP {response.status}"
HttpMessage(code) == "HTTP " \o ToString(code)

\* ------------------------------------------------------- target registry
\* four entries of get_services_to_check, one per way the type and the url
\* combine: api with 'health' in the url, model, a type without body
\* inspection, and a non-api type whose url contains 'health'
Svc_LiteLLM ==
    [name |-> "LiteLLM Proxy", type |-> "api",
     url |-> <<"h", "t", "t", "p", ":", "/", "/", "l", "o", "c", "a", "l",
               "h", "o", "s", "t", ":", "4", "0", "0", "0", "/", "h", "e",
               "a", "l", "t", "h", "/", "l", "i", "v", "e", "l", "i", "n",
               "e", "s", "s">>]
Svc_vLLM ==
    [name |-> "vLLM Qwen2.5-14B", type |-> "model",
     url |-> <<"h", "t", "t", "p", ":", "/", "/", "l", "o", "c", "a", "l",
               "h", "o", "s", "t", ":", "9", "9", "9", "8", "/", "h", "e",
               "a", "l", "t", "h">>]
Svc_RAGFlow ==
    [name |-> "RAGFlow", type |-> "web",
     url |-> <<"h", "t", "t", "p", ":", "/", "/", "l", "o", "c", "a", "l",
               "h", "o", "s", "t", ":", "9", "3", "8", "0", "/">>]
Svc_Prometheus ==
    [name |-> "Prometheus", type |-> "monitoring",
     url |-> <<"h", "t", "t", "p", ":", "/", "/", "l", "o", "c", "a", "l",
               "h", "o", "s", "t", ":", "9", "0", "9", "0", "/", "-", "/",
               "h", "e", "a", "l", "t", "h", "y">>]

get_services_to_check == {Svc_LiteLLM, Svc_vLLM, Svc_RAGFlow, Svc_Prometheus}

\* -------------------------------------------------------- response bodies
\* A body is its text (what response.text() returns) together with what
\* response.json() makes of it: raises (not JSON), or a value that is a
\* dict or not, with or without a "status" key.
NotJson == [raises |-> TRUE, isDict |-> FALSE, hasStatus |-> FALSE, status |-> None]
JsonNonDict == [raises |-> FALSE, isDict |-> FALSE, hasStatus |-> FALSE, status |-> None]
JsonDictNoStatus == [raises |-> FALSE, isDict |-> TRUE, hasStatus |-> FALSE, status |-> None]
JsonDictStatus(v) == [raises |-> FALSE, isDict |-> TRUE, hasStatus |-> TRUE, status |-> v]

Body_ServiceOK ==
    [text |-> <<"S", "e", "r", "v", "i", "c", "e", " ", "O", "K">>,
     json |-> NotJson]
Body_IAmAlive ==
    [text |-> <<"I", " ", "a", "m", " ", "a", "l", "i", "v", "e">>,
     json |-> NotJson]
Body_StatusOk ==
    [text |-> <<"{", "\"", "s", "t", "a", "t", "u", "s", "\"", ":", "\"",
                "o", "k", "\"", "}">>,
     json |-> JsonDictStatus("ok")]
Body_StatusUnknown ==
    [text |-> <<"{", "\"", "s", "t", "a", "t", "u", "s", "\"", ":", "\"",
                "u", "n", "k", "n", "o", "w", "n", "\"", "}">>,
     json |-> JsonDictStatus("unknown")]
Body_StatusHealthy ==
    [text |-> <<"{", "\"", "s", "t", "a", "t", "u", "s", "\"", ":", "\"",
                "h", "e", "a", "l", "t", "h", "y", "\"", "}">>,
     json |-> JsonDictStatus("healthy")]
Body_StatusNull ==
    [text |-> <<"{", "\"", "s", "t", "a", "t", "u", "s", "\"", ":", "n",
                "u", "l", "l", "}">>,
     json |-> JsonDictStatus(None)]
Body_EmptyObject ==
    [text |-> <<"{", "}">>, json |-> JsonDictNoStatus]
Body_EmptyArray ==
    [text |-> <<"[", "]">>, json |-> JsonNonDict]

Bodies == {Body_ServiceOK, Body_IAmAlive, Body_StatusOk, Body_StatusUnknown,
           Body_StatusHealthy, Body_StatusNull, Body_EmptyObject,
           Body_EmptyArray}

NoBody == [text |-> <<>>, json |-> NotJson]

\* ------------------------------------------------- check_service_async
\* what the request of one probe ended in
NoOutcome == [kind |-> "none", code |-> 0, bodyRead |-> "none",
              body |-> NoBody, error |-> None]
ResponseOutcome(code, bodyRead, body) ==
    [kind |-> "response", code |-> code, bodyRead |-> bodyRead,
     body |-> body, error |-> None]
TimeoutOutcome == [kind |-> "timeout", code |-> 0, bodyRead |-> "none",
                   body |-> NoBody, error |-> None]
ErrorOutcome(e) == [kind |-> "error", code |-> 0, bodyRead |-> "none",
                    body |-> NoBody, error |-> e]

\* ServiceCheck(name, url, status, error_message, metadata={"type": ...})
ServiceCheck(name, url, status, error_message, service_type) ==
    [name |-> name, url |-> url, status |-> status,
     error_message |-> error_message, type |-> service_type]

NoCheck == ServiceCheck("", <<>>, None, None, "")

\* the check of the service type left out
InspectsJson_AnyType(service) ==
    Contains(service.url, Str_health)

\* service_type == "api" and "health" in url
InspectsJson(service) ==
    service.type = "api" /\ Contains(service.url, Str_health)

\* elif service_type == "model"
InspectsText(service) ==
    ~InspectsJson(service) /\ service.type = "model"

\* the adopted value normalised: "ok" taken for healthy
ApiStatus_MapsOk(bodyRead, body) ==
    IF bodyRead = "fails" \/ body.json.raises \/ ~body.json.isDict
    THEN "healthy"
    ELSE IF body.json.hasStatus /\ body.json.status # "ok"
         THEN body.json.status
         ELSE "healthy"

\* try: data = await response.json(); status = data.get("status", "healthy")
\* except: pass      (data.get on a non-dict raises and is swallowed too)
ApiStatus(bodyRead, body) ==
    IF bodyRead = "fails" \/ body.json.raises \/ ~body.json.isDict
    THEN "healthy"
    ELSE IF body.json.hasStatus THEN body.json.status ELSE "healthy"

\* the body compared without .lower()
ModelStatus_CaseSensitive(bodyRead, body) ==
    IF bodyRead = "fails" THEN "healthy"
    ELSE IF /\ ~Contains(body.text, Str_healthy)
            /\ ~Contains(body.text, Str_ok)
         THEN "degraded"
         ELSE "healthy"

\* a body without 'healthy' or 'ok' reported as unknown
ModelStatus_Unknown(bodyRead, body) ==
    IF bodyRead = "fails" THEN "healthy"
    ELSE IF /\ ~Contains(LowerStr(body.text), Str_healthy)
            /\ ~Contains(LowerStr(body.text), Str_ok)
         THEN "unknown"
         ELSE "healthy"

\* try: text = await response.text()
\*      if "healthy" not in text.lower() and "ok" not in text.lower(): degraded
\* except: pass
ModelStatus(bodyRead, body) ==
    IF bodyRead = "fails" THEN "healthy"
    ELSE IF /\ ~Contains(LowerStr(body.text), Str_healthy)
            /\ ~Contains(LowerStr(body.text), Str_ok)
         THEN "degraded"
         ELSE "healthy"

\* the body of `async with session.get(url) as response:` for a response
ClassifyResponse(service, outcome) ==
    IF outcome.code = 200
    THEN [status |->
            IF InspectsJson(service)
            THEN ApiStatus(outcome.bodyRead, outcome.body)
            ELSE IF InspectsText(service)
                 THEN ModelStatus(outcome.bodyRead, outcome.body)
                 ELSE "healthy",
          error_message |-> None]
    ELSE [status |-> "unhealthy", error_message |-> HttpMessage(outcome.code)]

\* the class of the exception the try block ends in, None when it ends
\* normally
RaisedClass(outcome) ==
    CASE outcome.kind = "timeout" -> "asyncio.TimeoutError"
      [] outcome.kind = "error" -> "Exception"
      [] OTHER -> None

\* the catch-all `except Exception` left out
Caught_OnlyTimeout(excClass) == excClass = "asyncio.TimeoutError"

\* the except clauses of check_service_async
Caught(excClass) == excClass \in {"asyncio.TimeoutError", "Exception"}

\* the whole probe: [raised, check]; raised means the exception left
\* check_service_async
CheckServiceAsync(service, outcome) ==
    LET exc == RaisedClass(outcome)
        r == IF exc = None THEN ClassifyResponse(service, outcome)
             ELSE IF exc = "asyncio.TimeoutError"
                  THEN [status |-> "unhealthy", error_message |-> "Timeout"]
                  ELSE [status |-> "unhealthy", error_message |-> outcome.error]
    IN  IF exc # None /\ ~Caught(exc)
        THEN [raised |-> TRUE, check |-> NoCheck]
        ELSE [raised |-> FALSE,
              check |-> ServiceCheck(service.name, service.url, r.status,
                                     r.error_message, service.type)]

\* --------------------------------------------------------- gather, report
\* a wait that returns with the first finished task
GatherReady_FirstCompleted(ts) ==
    \E i \in DOMAIN ts : ts[i].pc \in {"done", "raised"}

\* asyncio.gather(*tasks) is over: every task returned, or one raised
GatherReady(ts) ==
    \/ \A i \in DOMAIN ts : ts[i].pc = "done"
    \/ \E i \in DOMAIN ts : ts[i].pc = "raised"

\* the results collected as the tasks complete
GatherResults_CompletionOrder(ts, order) ==
    [i \in DOMAIN ts |-> ts[order[i]].result]

\* the list gather returns: the task results in the order of the arguments
GatherResults(ts, order) == [i \in DOMAIN ts |-> ts[i].result]

Count(cs, st) == Cardinality({i \in DOMAIN cs : cs[i].status = st})

\* the precedence of the two counters swapped
OverallStatus_UnknownFirst(unhealthy_count, unknown_count) ==
    IF unknown_count > 0 THEN "degraded"
    ELSE IF unhealthy_count > 0 THEN "unhealthy"
    ELSE "healthy"

\* if unhealthy_count > 0 ... elif unknown_count > 0 ... else
OverallStatus(unhealthy_count, unknown_count) ==
    IF unhealthy_count > 0 THEN "unhealthy"
    ELSE IF unknown_count > 0 THEN "degraded"
    ELSE "healthy"

generate_report(cs) ==
    LET healthy_count == Count(cs, "healthy")
        unhealthy_count == Count(cs, "unhealthy")
        unknown_count == Count(cs, "unknown")
    IN  [overall_status |-> OverallStatus(unhealthy_count, unknown_count),
         total_services |-> Len(cs),
         healthy_services |-> healthy_count,
         unhealthy_services |-> unhealthy_count,
         unknown_services |-> unknown_count,
         checks |-> cs]

NoReport == [overall_status |-> None, total_services |-> 0,
             healthy_services |-> 0, unhealthy_services |-> 0,
             unknown_services |-> 0, checks |-> <<>>]

\* print_report raises when it colours a status that is not a string:
\* _colorize_status falls to its else branch and calls status.upper();
\* reached only in the verbose text rendering
PrintReportRaises(rep, verbose, json_output) ==
    /\ ~json_output
    /\ verbose
    /\ \E i \in DOMAIN rep.checks : rep.checks[i].status = None

\* every status but unhealthy exiting with 0
ExitCodeFor_DegradedIsZero(overall_status) ==
    IF overall_status = "unhealthy" THEN 1 ELSE 0

\* the sys.exit calls at the end of main
ExitCodeFor(overall_status) ==
    IF overall_status = "unhealthy" THEN 1
    ELSE IF overall_status = "degraded" THEN 2
    ELSE 0

\* ----------------------------------------------------------- state, Init
\* lists of 1..n services, no service twice (as in get_services_to_check)
ServiceLists(n) ==
    {l \in UNION {[1..k -> get_services_to_check] : k \in 1..n} :
        \A i, j \in DOMAIN l : l[i] = l[j] => i = j}

NewTask == [pc |-> "created", attempts |-> 0, outcome |-> NoOutcome,
            result |-> NoCheck]

Init ==
    /\ max_retries = DefaultRetries
    /\ services \in ServiceLists(MaxTargets)
    /\ mainPc = "start"
    /\ tasks = [i \in DOMAIN services |-> NewTask]
    /\ doneOrder = <<>>
    /\ checks = <<>>
    /\ report = NoReport
    /\ reportsBuilt = 0
    /\ exitCode = NoExit

\* ---------------------------------------------------------------- actions
\* main up to `await checker.run_health_checks_async(services)`: one
\* coroutine per service, all handed to gather, each issuing its one GET.
\* (The `except ImportError` fallback to run_health_checks_sync, the only
\* user of the retrying requests session, is never entered: aiohttp is
\* imported when the module loads and check_service_async catches every
\* Exception.)
RunHealthChecksAsync ==
    /\ mainPc = "start"
    /\ mainPc' = "gather"
    /\ tasks' = [i \in DOMAIN tasks |->
                    [tasks[i] EXCEPT !.pc = "requesting", !.attempts = 1]]
    /\ UNCHANGED <<max_retries, services, doneOrder, checks, report, reportsBuilt,
                   exitCode>>

\* task i leaves check_service_async with the outcome o
Finish(i, o) ==
    LET r == CheckServiceAsync(services[i], o)
    IN  /\ tasks' = [tasks EXCEPT ![i] =
                        [pc |-> IF r.raised THEN "raised" ELSE "done",
                         attempts |-> tasks[i].attempts,
                         outcome |-> o,
                         result |-> r.check]]
        /\ doneOrder' = Append(doneOrder, i)

\* session.get(url) yields a response with status code `code`
ProbeResponse(i, code) ==
    /\ mainPc = "gather"
    /\ tasks[i].pc = "requesting"
    /\ IF code = 200 /\ (InspectsJson(services[i]) \/ InspectsText(services[i]))
       THEN /\ tasks' = [tasks EXCEPT ![i].pc = "body",
                                      ![i].outcome = ResponseOutcome(code, "none", NoBody)]
            /\ UNCHANGED doneOrder
       ELSE Finish(i, ResponseOutcome(code, "none", NoBody))
    /\ UNCHANGED <<max_retries, services, mainPc, checks, report, reportsBuilt,
                   exitCode>>

\* await response.json() / response.text() delivers the body b
ProbeBody(i, b) ==
    /\ mainPc = "gather"
    /\ tasks[i].pc = "body"
    /\ Finish(i, ResponseOutcome(tasks[i].outcome.code, "ok", b))
    /\ UNCHANGED <<max_retries, services, mainPc, checks, report, reportsBuilt,
                   exitCode>>

\* reading the body raises (connection lost, timeout while reading)
ProbeBodyFails(i) ==
    /\ mainPc = "gather"
    /\ tasks[i].pc = "body"
    /\ Finish(i, ResponseOutcome(tasks[i].outcome.code, "fails", NoBody))
    /\ UNCHANGED <<max_retries, services, mainPc, checks, report, reportsBuilt,
                   exitCode>>

\* the request runs into ClientTimeout(total=self.timeout)
ProbeTimeout(i) ==
    /\ mainPc = "gather"
    /\ tasks[i].pc = "requesting"
    /\ Finish(i, TimeoutOutcome)
    /\ UNCHANGED <<max_retries, services, mainPc, checks, report, reportsBuilt,
                   exitCode>>

\* the request raises another exception with message e
ProbeError(i, e) ==
    /\ mainPc = "gather"
    /\ tasks[i].pc = "requesting"
    /\ Finish(i, ErrorOutcome(e))
    /\ UNCHANGED <<max_retries, services, mainPc, checks, report, reportsBuilt,
                   exitCode>>

\* gather is over and main runs on: the list of results and the report
\* built from it, or the exception of a task reaching the handler of
\* __main__ (sys.exit(1))
GenerateReport ==
    /\ mainPc = "gather"
    /\ GatherReady(tasks)
    /\ IF \E i \in DOMAIN tasks : tasks[i].pc = "raised"
       THEN /\ mainPc' = "exited"
            /\ exitCode' = 1
            /\ UNCHANGED <<checks, report, reportsBuilt>>
       ELSE /\ mainPc' = "print"
            /\ checks' = GatherResults(tasks, doneOrder)
            /\ report' = generate_report(GatherResults(tasks, doneOrder))
            /\ reportsBuilt' = reportsBuilt + 1
            /\ UNCHANGED exitCode
    /\ UNCHANGED <<max_retries, services, tasks, doneOrder>>

\* checker.print_report(report, verbose=args.verbose, json_output=args.json)
\* raises into the handler of __main__ (sys.exit(1)), or returns and main
\* ends in the sys.exit for the report's overall status
PrintReportAndExit(verbose, json_output) ==
    /\ mainPc = "print"
    /\ exitCode' = IF PrintReportRaises(report, verbose, json_output) THEN 1
                   ELSE ExitCodeFor(report.overall_status)
    /\ mainPc' = "exited"
    /\ UNCHANGED <<max_retries, services, tasks, doneOrder, checks, report,
                   reportsBuilt>>

\* except KeyboardInterrupt: sys.exit(130)
KeyboardInterrupt ==
    /\ mainPc \in {"start", "gather", "print"}
    /\ exitCode' = 130
    /\ mainPc' = "exited"
    /\ UNCHANGED <<max_retries, services, tasks, doneOrder, checks, report,
                   reportsBuilt>>

\* one step of one probe
Probe ==
    \/ \E i \in DOMAIN tasks, code \in StatusCodes : ProbeResponse(i, code)
    \/ \E i \in DOMAIN tasks, b \in Bodies : ProbeBody(i, b)
    \/ \E i \in DOMAIN tasks : ProbeBodyFails(i)
    \/ \E i \in DOMAIN tasks : ProbeTimeout(i)
    \/ \E i \in DOMAIN tasks, e \in ErrorMessages : ProbeError(i, e)

\* one step of main
MainStep ==
    \/ RunHealthChecksAsync
    \/ GenerateReport
    \/ \E verbose, json_output \in BOOLEAN :
          PrintReportAndExit(verbose, json_output)

Next ==
    \/ MainStep
    \/ Probe
    \/ KeyboardInterrupt

Spec == Init /\ [][Next]_vars

\* the run without a user interrupt, in which every request ends in a
\* response, an error or its timeout and main runs on when gather is over
NextRun ==
    \/ MainStep
    \/ Probe

LiveSpec == Init /\ [][NextRun]_vars /\ WF_vars(NextRun)

\* ================================================================ claims
Reported == reportsBuilt > 0
Done(i) == tasks[i].pc = "done"
Uncounted(st) == st \notin {"healthy", "unhealthy", "unknown"}

\* C1: the list gather returns, and report.checks, are as long as the list
\* of services, and the entry at index i is the result of the probe of
\* service i (its name and url), whatever the order of completion.
C1_ResultsInTargetOrder ==
    Reported =>
        /\ Len(checks) = Len(services)
        /\ Len(report.checks) = Len(services)
        /\ report.total_services = Len(services)
        /\ \A i \in DOMAIN services :
            /\ checks[i] = tasks[i].result
            /\ report.checks[i] = tasks[i].result
            /\ checks[i].name = services[i].name
            /\ checks[i].url = services[i].url

\* two probes that finished in the reverse of the list order
C1_Witness ==
    /\ Reported
    /\ doneOrder = <<2, 1>>
    /\ checks[1].status # checks[2].status

\* C2: overall status is unhealthy iff some result is unhealthy; otherwise
\* degraded iff some result is unknown; otherwise healthy (degraded results
\* do not count).
C2_OverallStatus ==
    Reported =>
        LET anyUnhealthy == \E i \in DOMAIN report.checks :
                                report.checks[i].status = "unhealthy"
            anyUnknown == \E i \in DOMAIN report.checks :
                                report.checks[i].status = "unknown"
        IN  /\ (report.overall_status = "unhealthy") <=> anyUnhealthy
            /\ ~anyUnhealthy =>
                   ((report.overall_status = "degraded") <=> anyUnknown)
            /\ (~anyUnhealthy /\ ~anyUnknown) =>
                   report.overall_status = "healthy"

\* a report with a degraded result and otherwise healthy ones is healthy
C2_Witness ==
    /\ Reported
    /\ \E i \in DOMAIN report.checks : report.checks[i].status = "degraded"
    /\ \E i \in DOMAIN report.checks : report.checks[i].status = "healthy"
    /\ \A i \in DOMAIN report.checks :
           report.checks[i].status \in {"healthy", "degraded"}
    /\ report.overall_status = "healthy"

RequestFailed(o) ==
    \/ o.kind \in {"timeout", "error"}
    \/ o.kind = "response" /\ o.code # 200

\* C3: no exception leaves check_service_async; every outcome ends in a
\* result, and a failed request (error, timeout, non-200) gives unhealthy
\* with the message 'Timeout', 'HTTP <code>' or the exception's message.
C3_ProbeNeverRaises ==
    \A i \in DOMAIN tasks :
        /\ tasks[i].pc # "raised"
        /\ tasks[i].outcome.kind \in {"timeout", "error"} => Done(i)
        /\ Done(i) =>
            /\ tasks[i].result.name = services[i].name
            /\ RequestFailed(tasks[i].outcome) =>
                /\ tasks[i].result.status = "unhealthy"
                /\ tasks[i].result.error_message # None
                /\ tasks[i].result.error_message =
                     CASE tasks[i].outcome.kind = "timeout" -> "Timeout"
                       [] tasks[i].outcome.kind = "error" ->
                            tasks[i].outcome.error
                       [] OTHER ->
                            IF tasks[i].outcome.code = 404 THEN "HTTP 404"
                            ELSE "HTTP 500"

\* a probe whose request raised an exception, beside one that timed out
C3_Witness ==
    /\ \E i \in DOMAIN tasks : Done(i) /\ tasks[i].outcome.kind = "error"
    /\ \E i \in DOMAIN tasks : Done(i) /\ tasks[i].outcome.kind = "timeout"

\* C4: a probe answered with a status code of the forcelist has made
\* 1 + retries attempts when it yields its (unhealthy) result; a probe
\* answered with another code has made one.
C4_RetriesOnForcelist ==
    \A i \in DOMAIN tasks :
        (Done(i) /\ tasks[i].outcome.kind = "response") =>
            IF tasks[i].outcome.code \in status_forcelist
            THEN /\ tasks[i].attempts = 1 + max_retries
                 /\ tasks[i].result.status = "unhealthy"
            ELSE tasks[i].attempts = 1

\* C5: the exit code is 0, 1 or 2 for a healthy, unhealthy or degraded
\* report, 130 after a user interrupt and 1 after a failure at top level
\* (print_report raising on a status that is not a string); no unhealthy
\* or degraded report exits with 0.
C5_ExitCode ==
    mainPc = "exited" =>
        /\ exitCode \in {0, 1, 2, 130}
        /\ ~Reported => exitCode = 130
        /\ (Reported /\ exitCode # 130) =>
              \/ /\ report.overall_status = "healthy" => exitCode = 0
                 /\ report.overall_status = "unhealthy" => exitCode = 1
                 /\ report.overall_status = "degraded" => exitCode = 2
              \/ /\ exitCode = 1
                 /\ \E i \in DOMAIN checks : checks[i].status = None
        /\ (Reported /\ report.overall_status \in {"unhealthy", "degraded"})
              => exitCode # 0

\* a degraded report that ended the process with 2
C5_Witness ==
    /\ mainPc = "exited"
    /\ report.overall_status = "degraded"
    /\ exitCode = 2

CountedSum ==
    report.healthy_services + report.unhealthy_services
        + report.unknown_services

\* C6 as stated: the three counters add up to at most total_services, and
\* every result counted by none of them is degraded.
C6_RemainderIsDegraded ==
    Reported =>
        /\ CountedSum <= report.total_services
        /\ \A i \in DOMAIN report.checks :
               Uncounted(report.checks[i].status) =>
                   report.checks[i].status = "degraded"

\* C6 amended: the three counters add up to at most total_services, the
\* remainder being the results whose status is none of healthy, unhealthy,
\* unknown; each of those is degraded, or is the result of an api target
\* with 'health' in its url that adopted the "status" field of a 200 body.
C6_RemainderDegradedOrAdopted ==
    Reported =>
        /\ CountedSum <= report.total_services
        /\ report.total_services - CountedSum =
              Cardinality({i \in DOMAIN report.checks :
                              Uncounted(report.checks[i].status)})
        /\ \A i \in DOMAIN report.checks :
               Uncounted(report.checks[i].status) =>
                   \/ report.checks[i].status = "degraded"
                   \/ /\ services[i].type = "api"
                      /\ Contains(services[i].url, Str_health)
                      /\ tasks[i].outcome.code = 200
                      /\ tasks[i].outcome.bodyRead = "ok"
                      /\ tasks[i].outcome.body.json.hasStatus
                      /\ report.checks[i].status =
                            tasks[i].outcome.body.json.status

\* a report with a degraded result and an adopted "ok", neither counted
C6_Witness ==
    /\ Reported
    /\ \E i \in DOMAIN report.checks : report.checks[i].status = "degraded"
    /\ \E i \in DOMAIN report.checks : report.checks[i].status = "ok"
    /\ CountedSum = 0
    /\ report.total_services = 2

IsApiHealth200(i) ==
    /\ Done(i)
    /\ services[i].type = "api"
    /\ Contains(services[i].url, Str_health)
    /\ tasks[i].outcome.kind = "response"
    /\ tasks[i].outcome.code = 200

\* C7: an api target with 'health' in its url answering 200 gets the value
\* of the body's "status" field as its status when the body parses and has
\* the field, and healthy otherwise; healthy_services counts only the
\* results whose status equals 'healthy'.
C7_ApiStatusAdopted ==
    /\ \A i \in DOMAIN tasks :
          IsApiHealth200(i) =>
              LET j == tasks[i].outcome.body.json
              IN  IF /\ tasks[i].outcome.bodyRead = "ok"
                     /\ ~j.raises /\ j.isDict /\ j.hasStatus
                  THEN tasks[i].result.status = j.status
                  ELSE tasks[i].result.status = "healthy"
    /\ Reported =>
          report.healthy_services =
              Cardinality({i \in DOMAIN tasks :
                              tasks[i].result.status = "healthy"})

\* the body {"status":"ok"} adopted as "ok" and left out of healthy_services
C7_Witness ==
    /\ Reported
    /\ \E i \in DOMAIN tasks :
          /\ IsApiHealth200(i)
          /\ tasks[i].outcome.body = Body_StatusOk
          /\ tasks[i].result.status = "ok"
    /\ report.healthy_services = 0

\* C8: a model target answering 200 is healthy when the lower-cased body
\* contains 'healthy' or 'ok', degraded when it contains neither, healthy
\* when the body cannot be read; no error message in any of the three.
C8_ModelBodySniffing ==
    \A i \in DOMAIN tasks :
        (/\ Done(i)
         /\ services[i].type = "model"
         /\ tasks[i].outcome.kind = "response"
         /\ tasks[i].outcome.code = 200) =>
            /\ tasks[i].result.error_message = None
            /\ tasks[i].result.status =
                 IF tasks[i].outcome.bodyRead = "fails" THEN "healthy"
                 ELSE LET t == LowerStr(tasks[i].outcome.body.text)
                      IN  IF Contains(t, Str_healthy) \/ Contains(t, Str_ok)
                          THEN "healthy" ELSE "degraded"

\* "Service OK" (upper-case OK) found healthy
C8_Witness ==
    \E i \in DOMAIN tasks :
        /\ Done(i)
        /\ services[i].type = "model"
        /\ tasks[i].outcome.body = Body_ServiceOK
        /\ tasks[i].result.status = "healthy"

\* C9: the report is built once and only when every probe has finished; a
\* step of one probe changes no other probe and a finished probe keeps its
\* result, which is a function of its own service and outcome; and the run
\* reaches the report.
C9_Join ==
    /\ reportsBuilt <= 1
    /\ Reported => \A i \in DOMAIN tasks : Done(i)
    /\ \A i \in DOMAIN tasks : tasks[i].pc \in {"created", "requesting", "body", "done"}
    /\ \A i \in DOMAIN tasks :
          (Done(i) /\ tasks[i].outcome.kind \in {"timeout", "error"}) =>
              \A j \in DOMAIN tasks :
                  (j # i /\ Done(j) /\ tasks[j].outcome.kind = "response"
                   /\ tasks[j].outcome.code = 200
                   /\ services[j].type \notin {"api", "model"}) =>
                      tasks[j].result.status = "healthy"

C9_Independent ==
    \A i \in DOMAIN tasks :
        /\ Done(i) => tasks'[i] = tasks[i]
        /\ (tasks[i].pc # "created" /\ tasks'[i] # tasks[i]) =>
              \A j \in DOMAIN tasks : j # i => tasks'[j] = tasks[j]

C9_FanOutFanIn ==
    /\ []C9_Join
    /\ [][C9_Independent]_vars
    /\ <>(reportsBuilt = 1)

\* the report built after one probe timed out and another came back healthy
C9_Witness ==
    /\ Reported
    /\ \E i \in DOMAIN tasks : tasks[i].outcome.kind = "timeout"
    /\ \E i \in DOMAIN tasks : tasks[i].result.status = "healthy"

\* C10 as stated: no probe result has status unknown and no report counts
\* an unknown service.
C10_NeverUnknown ==
    /\ \A i \in DOMAIN tasks : Done(i) => tasks[i].result.status # "unknown"
    /\ report.unknown_services = 0
    /\ report.overall_status # "degraded"

AdoptedUnknown(i) ==
    /\ services[i].type = "api"
    /\ Contains(services[i].url, Str_health)
    /\ tasks[i].outcome.kind = "response"
    /\ tasks[i].outcome.code = 200
    /\ tasks[i].outcome.bodyRead = "ok"
    /\ tasks[i].outcome.body.json.hasStatus
    /\ tasks[i].outcome.body.json.status = "unknown"

\* C10 amended: a probe result has status unknown only when an api target
\* with 'health' in its url answered 200 with a body whose "status" field
\* is "unknown"; unknown_services counts exactly those results and the
\* overall status degraded is reported only when there is one.
C10_UnknownOnlyAdopted ==
    /\ \A i \in DOMAIN tasks :
          (Done(i) /\ tasks[i].result.status = "unknown") => AdoptedUnknown(i)
    /\ Reported =>
          /\ report.unknown_services =
                Cardinality({i \in DOMAIN tasks : AdoptedUnknown(i)})
          /\ report.overall_status = "degraded" =>
                \E i \in DOMAIN tasks : AdoptedUnknown(i)

\* a report made degraded by an adopted "unknown"
C10_Witness ==
    /\ Reported
    /\ report.unknown_services = 1
    /\ report.overall_status = "degraded"

====
